---- MODULE Spec2Model ----
(***************************************************************************)
(* jtag-adi: the ARM Debug Interface engine (ArmDebugInterface) and the    *)
(* Memory Access Port facade (MemAP) of src/src/lib.rs, run against a      *)
(* JTAG transport and an ADIv5 target.                                     *)
(*                                                                         *)
(* Every operation of the library is a function from a "world" record to a *)
(* world record.  A world holds the engine's fields (lastbank, lastir),    *)
(* the MemAP objects (mem), the transport and target (tap), the ACKs the   *)
(* target is going to answer with (acks), what the transport saw during    *)
(* the call (trace), what the target did during the call (tlog) and the    *)
(* call's outcome (st, val).                                               *)
(***************************************************************************)
EXTENDS Integers, Sequences, FiniteSets, TLC

VARIABLES phase, adi, memap, tap, call

vars == <<phase, adi, memap, tap, call>>

\* ------------------------------------------------------------------------
\* Program constants
\* ------------------------------------------------------------------------

PortDP == 10
PortAP == 11

DPAbort == 0
DPCtrlStat == 1
DPSelect == 2
DPRdbuff == 3

RegCSW == 0
RegTAR == 1
RegDRW == 3

AckWait == 1
AckOk == 2
AckFault == 4

ErrSticky == 5

\* 1 << 30 | 1 << 28 | 1 << 24 | 1 << 5 | 1 << 1
CtrlStatInit == 1358954530

\* ------------------------------------------------------------------------
\* Bounds of the model
\* ------------------------------------------------------------------------

\* OK answers a script may start with before its WAITs
MaxPre == 4
\* WAIT answers in a row in a script of an engine call
MaxWait == 2
\* words of a block transfer
MaxLen == 2
\* block transfers go on while the target's TAR is this many words, at
\* most, past the lowest address (or at an address of the calls)
MaxDrift == 2

\* ------------------------------------------------------------------------
\* Bit arithmetic on naturals
\* ------------------------------------------------------------------------

RECURSIVE BitAnd(_, _)
BitAnd(a, b) ==
    IF a = 0 \/ b = 0 THEN 0
    ELSE (a % 2) * (b % 2) + 2 * BitAnd(a \div 2, b \div 2)

RECURSIVE BitOr(_, _)
BitOr(a, b) ==
    IF a = 0 THEN b
    ELSE IF b = 0 THEN a
    ELSE (IF a % 2 = 1 \/ b % 2 = 1 THEN 1 ELSE 0) + 2 * BitOr(a \div 2, b \div 2)

RECURSIVE Pow2(_)
Pow2(n) == IF n = 0 THEN 1 ELSE 2 * Pow2(n - 1)

\* x << n in a byte (u8)
Shl8(x, n) == (x * Pow2(n)) % 256

\* ------------------------------------------------------------------------
\* Wire format: bytes are little-endian; a u32 is 4 bytes, a u64 is 8
\* ------------------------------------------------------------------------

\* val as u64, as its little-endian bytes
U64Bytes(v) ==
    <<v % 256, (v \div 256) % 256, (v \div 65536) % 256, (v \div 16777216) % 256,
      0, 0, 0, 0>>

\* u64 <<= 3, byte by byte
Shl3(b) ==
    [i \in 1..8 |->
        ((b[i] * 8) % 256) + (IF i = 1 THEN 0 ELSE b[i - 1] \div 32)]

\* (u64 >> 3) as u32, as its 4 bytes
Shr3U32(b) == [i \in 1..4 |-> (b[i] \div 8) + (b[i + 1] % 8) * 32]

\* the number 4 little-endian bytes stand for (below 2^31 in this model)
U32Of(d) == d[1] + 256 * d[2] + 65536 * d[3] + 16777216 * d[4]

\* u64 & ((1 << 35) - 1)
Mask35(b) == [i \in 1..8 |-> IF i <= 4 THEN b[i] ELSE IF i = 5 THEN b[i] % 8 ELSE 0]

\* dr.push(0) three times: 5 bytes become the 8 of a u64
Push3(dr) == dr \o <<0, 0, 0>>

\* write_adi_nobank's payload: (val << 3) | (reg << 1), bytes[0..5];
\* b8 is `val as u64`
MutWritePayloadShift2(reg, b8) ==
    LET s == Shl3(b8)
        r == U64Bytes(Shl8(reg, 2))
    IN SubSeq([i \in 1..8 |-> BitOr(s[i], r[i])], 1, 5)

WritePayload(reg, b8) ==
    LET s == Shl3(b8)
        r == U64Bytes(Shl8(reg, 1))
    IN SubSeq([i \in 1..8 |-> BitOr(s[i], r[i])], 1, 5)

\* the read request: [(reg << 1) | 1, 0, 0, 0, 0]
ReadPayload(reg) == <<BitOr(Shl8(reg, 1), 1), 0, 0, 0, 0>>

\* the u64 a 5-byte scan is read as, masked to 35 bits
ScanVal(dr) == Mask35(Push3(dr))

\* val & 7
AckOf(dr) == ScanVal(dr)[1] % 8

\* (val >> 3) as u32
DataOf(dr) == Shr3U32(ScanVal(dr))

\* ------------------------------------------------------------------------
\* The target (an ADIv5 JTAG-DP with MEM-APs) and the JTAG transport
\* ------------------------------------------------------------------------

\* the access ports of the target
APs == {0, 1}

\* SELECT's fields: (apsel << 24) | (apbank << 4) | dpbank
ApSel(sel) == sel \div 16777216
ApBank(sel) == (sel \div 16) % 16
DpBank(sel) == sel % 16

\* what memory holds at an address
MemAt(addr) == addr + 4096

\* TAR after one auto-incremented word transfer: it wraps within its 1 KiB page
TarInc(t) == (t - (t % 1024)) + (((t % 1024) + 4) % 1024)

\* the target's answer as the 35 bits of the next scan: data in [34:3], ACK in [2:0]
RespBytes(ack, data) ==
    LET s == Shl3(U64Bytes(data))
    IN <<s[1] + ack, s[2], s[3], s[4], s[5]>>

\* an accepted (ACK OK) access to register a of the port the IR selects:
\* the target afterwards, the data read, the memory address accessed
TargetAccess(t, rnw, a, data) ==
    LET none == [t |-> t, rd |-> 0, addr |-> 0]
        ap == ApSel(t.sel)
    IN IF t.ir = PortDP THEN
           IF a = DPSelect THEN
               IF rnw = 0 THEN [none EXCEPT !.t = [t EXCEPT !.sel = data]]
               ELSE [none EXCEPT !.rd = t.sel]
           ELSE IF a = DPCtrlStat /\ DpBank(t.sel) = 0 /\ rnw = 1 THEN
               [none EXCEPT !.rd = t.stat]
           ELSE none
       ELSE IF t.ir = PortAP /\ ap \in APs /\ ApBank(t.sel) = 0 THEN
           IF a = RegCSW THEN
               IF rnw = 0 THEN [none EXCEPT !.t = [t EXCEPT !.csw[ap] = data]]
               ELSE [none EXCEPT !.rd = t.csw[ap]]
           ELSE IF a = RegTAR THEN
               IF rnw = 0 THEN [none EXCEPT !.t = [t EXCEPT !.tar[ap] = data]]
               ELSE [none EXCEPT !.rd = t.tar[ap]]
           ELSE IF a = RegDRW THEN
               [t |-> IF BitAnd(t.csw[ap], 16) # 0
                      THEN [t EXCEPT !.tar[ap] = TarInc(t.tar[ap])]
                      ELSE t,
                rd |-> IF rnw = 1 THEN MemAt(t.tar[ap]) ELSE 0,
                addr |-> t.tar[ap]]
           ELSE none
       ELSE none

\* one event of the transport's record of a call
Ev(k, tx, rx, ir) == [k |-> k, tx |-> tx, rx |-> rx, ir |-> ir]

\* a DR scan that shifts a request in: the target answers with the next ACK of
\* its script (OK once the script is used up) and performs the access when
\* that ACK is OK; the answer is what the next scan shifts out
ScanDone(w, k, tx, rnw, a, data, ack, acc) ==
    [w EXCEPT
       !.tap = [acc.t EXCEPT !.resp = RespBytes(ack, acc.rd)],
       !.acks = IF w.acks = <<>> THEN <<>> ELSE Tail(w.acks),
       !.dr = IF k = "rwdr" THEN w.tap.resp ELSE <<>>,
       !.trace = Append(@, Ev(k, tx, IF k = "rwdr" THEN w.tap.resp ELSE <<>>, w.tap.ir)),
       !.tlog = Append(@, [port |-> w.tap.ir, sel |-> w.tap.sel, rnw |-> rnw, a |-> a,
                           data |-> IF rnw = 1 THEN acc.rd ELSE data,
                           addr |-> acc.addr, ack |-> ack])]

ScanReq(w, k, tx, rnw, a, data, ack) ==
    ScanDone(w, k, tx, rnw, a, data, ack,
             IF ack = AckOk THEN TargetAccess(w.tap, rnw, a, data)
             ELSE [t |-> w.tap, rd |-> 0, addr |-> 0])

ScanBits(w, k, tx, v) ==
    ScanReq(w, k, tx, v[1] % 2, (v[1] \div 2) % 4, U32Of(Shr3U32(v)),
            IF w.acks = <<>> THEN AckOk ELSE Head(w.acks))

Scan(w, k, tx) == ScanBits(w, k, tx, ScanVal(tx))

\* taps.write_ir(ir)
TapsWriteIr(w, ir) ==
    [w EXCEPT !.tap.ir = ir[1], !.trace = Append(@, Ev("ir", ir, <<>>, w.tap.ir))]

\* taps.write_dr(bytes, 3): 4 bytes and 3 bits are shifted in
TapsWriteDr(w, bytes) == Scan(w, "wdr", bytes)

\* taps.read_write_dr(bytes, 3): the previous answer is shifted out meanwhile
TapsReadWriteDr(w, bytes) == Scan(w, "rwdr", bytes)

\* taps.read_dr(35): the previous answer is shifted out
TapsReadDr(w) ==
    [w EXCEPT !.dr = w.tap.resp,
              !.trace = Append(@, Ev("rdr", <<>>, w.tap.resp, w.tap.ir))]

\* capacity of the transport's queue of deferred reads
QueueCap == 2

\* taps.queue_dr_read(35): the read is scanned now and its answer kept
TapsQueueDrRead(w) ==
    IF Len(w.tap.rxq) < QueueCap
    THEN [w EXCEPT !.qok = TRUE,
                   !.tap.rxq = Append(@, w.tap.resp),
                   !.trace = Append(@, Ev("qrd", <<>>, w.tap.resp, w.tap.ir))]
    ELSE [w EXCEPT !.qok = FALSE]

\* taps.finish_dr_read(35): the oldest deferred answer
TapsFinishDrRead(w) ==
    [w EXCEPT !.dr = Head(w.tap.rxq),
              !.tap.rxq = Tail(@),
              !.trace = Append(@, Ev("fin", <<>>, Head(w.tap.rxq), w.tap.ir))]

\* ------------------------------------------------------------------------
\* ArmDebugInterface
\* ------------------------------------------------------------------------

\* how a call ends: Ok(v), Err(e), or a panic (expect, assert, index)
Ok(w, v) == [w EXCEPT !.st = "ok", !.val = v]
OkVec(w, s) == [w EXCEPT !.st = "ok", !.val = 0, !.vec = s]
Err(w, e) == [w EXCEPT !.st = "err", !.val = e]
Panic(w) == [w EXCEPT !.st = "panic", !.val = 0]

\* the ? operator: go on with K when the step before it returned Ok
Bind(w, K(_)) == IF w.st = "ok" THEN K(w) ELSE w

\* .expect(..): an Err panics
Expect(w) == IF w.st = "err" THEN Panic(w) ELSE w

\* write_ir without the comparison against lastir: the IR is shifted every time
MutWriteIrAlways(w, ir) == [TapsWriteIr(w, ir) EXCEPT !.lastir = ir]

WriteIr(w, ir) ==
    IF w.lastir # ir
    THEN [TapsWriteIr(w, ir) EXCEPT !.lastir = ir]
    ELSE w

\* parse_ack, and the same decoding inlined in finish_read
ParseAck(w, dr) ==
    IF AckOf(dr) # 2 THEN Err(w, AckOf(dr)) ELSE Ok(w, U32Of(DataOf(dr)))

\* parse_ack of the bytes the transport just returned
ParseDr(w) == ParseAck(w, w.dr)

QueueReadAdiNobank(w, port, reg) ==
    TapsQueueDrRead(TapsWriteDr(WriteIr(w, <<port>>), ReadPayload(reg)))

FinishRead(w) == ParseDr(TapsFinishDrRead(w))

\* assert!(result)
AssertQueued(w) == IF ~w.qok THEN Panic(w) ELSE w

\* read_adi_nobank asking again, once, when the answer is WAIT
MutReadAdiNobankRetry(w, port, reg) ==
    Bind(AssertQueued(QueueReadAdiNobank(w, port, reg)),
         LAMBDA w1 :
             LET r == FinishRead(w1)
             IN IF r.st = "err" /\ r.val = AckWait
                THEN Bind(AssertQueued(QueueReadAdiNobank(Ok(r, 0), port, reg)),
                          LAMBDA w2 : FinishRead(w2))
                ELSE r)

ReadAdiNobank(w, port, reg) ==
    Bind(AssertQueued(QueueReadAdiNobank(w, port, reg)), LAMBDA w1 : FinishRead(w1))

\* the ACK match of write_adi_nobank with its WAIT arm taken for success: no
\* retry
MutWriteLoopAckNoRetry(w3, ir, bytes) ==
    IF AckOf(w3.dr) = 2 \/ AckOf(w3.dr) = 1 THEN Ok(w3, 0)
    ELSE Err(w3, AckOf(w3.dr))

\* the loop of write_adi_nobank: one round is IR, write DR and, when checked,
\* the scan that reads the ACK (w3 is the world after that scan)
RECURSIVE WriteLoop(_, _, _, _)
WriteLoopAck(w3, ir, bytes) ==
    IF AckOf(w3.dr) = 2 THEN Ok(w3, 0)
    ELSE IF AckOf(w3.dr) = 1 THEN WriteLoop(w3, ir, bytes, TRUE)
    ELSE Err(w3, AckOf(w3.dr))

WriteLoop(w, ir, bytes, check) ==
    IF ~check THEN Ok(TapsWriteDr(WriteIr(w, ir), bytes), 0)
    ELSE WriteLoopAck(TapsReadDr(TapsWriteDr(WriteIr(w, ir), bytes)), ir, bytes)

WriteAdiNobank(w, port, reg, val, check) ==
    WriteLoop(w, <<port>>, WritePayload(reg, U64Bytes(val)), check)

\* (apsel << 24) | (apbank << 4) | dpbank
BankVal(apsel, apbank, dpbank) ==
    BitOr(BitOr(apsel * Pow2(24), apbank * Pow2(4)), dpbank)

\* bank_select with the packed value val
BankSelectVal(w, val) ==
    IF val # w.lastbank
    THEN Bind(Expect(WriteAdiNobank(w, PortDP, DPSelect, val, TRUE)),
              LAMBDA w1 : [w1 EXCEPT !.lastbank = val])
    ELSE w

BankSelect(w, apsel, apbank, dpbank) ==
    BankSelectVal(w, BankVal(apsel, apbank, dpbank))

ReadAdi(w, apsel, port, reg) ==
    Bind(BankSelect(w, apsel, reg \div 4, 0),
         LAMBDA w1 : ReadAdiNobank(w1, port, BitAnd(reg, 3)))

QueueReadAdi(w, apsel, port, reg) ==
    Bind(BankSelect(w, apsel, reg \div 4, 0),
         LAMBDA w1 : QueueReadAdiNobank(w1, port, BitAnd(reg, 3)))

\* write_adi selecting DP bank 0 as the read paths do
MutWriteAdiDpBank0(w, apsel, port, reg, val) ==
    Bind(BankSelect(w, apsel, reg \div 4, 0),
         LAMBDA w1 : WriteAdiNobank(w1, port, BitAnd(reg, 3), val, TRUE))

WriteAdi(w, apsel, port, reg, val) ==
    Bind(BankSelect(w, apsel, reg \div 4, reg \div 4),
         LAMBDA w1 : WriteAdiNobank(w1, port, BitAnd(reg, 3), val, TRUE))

WriteAdiNocheck(w, apsel, port, reg, val) ==
    Bind(BankSelect(w, apsel, reg \div 4, reg \div 4),
         LAMBDA w1 : WriteAdiNobank(w1, port, BitAnd(reg, 3), val, FALSE))

\* ArmDebugInterface::new
AdiNew(w) ==
    Bind(Expect(WriteAdiNobank([w EXCEPT !.lastbank = 0, !.lastir = <<>>],
                               PortDP, DPAbort, 0, TRUE)),
         LAMBDA w1 : Expect(WriteAdiNobank(w1, PortDP, DPCtrlStat, CtrlStatInit, TRUE)))

\* the loop of read_adi_pipelined with write_dr in place of read_write_dr:
\* the registers are requested and the answers shifted out meanwhile are lost
RECURSIVE MutPipeReadLoopNoRead(_, _, _, _)
MutPipeReadLoopNoRead(w, regs, i, result) ==
    IF i > Len(regs) THEN OkVec(w, result)
    ELSE MutPipeReadLoopNoRead(TapsWriteDr(w, ReadPayload(BitAnd(regs[i], 3))),
                               regs, i + 1, result)

\* the loop of read_adi_pipelined leaving out the answers that are WAIT
\* and going on
RECURSIVE MutPipeReadLoopDropWait(_, _, _, _)
MutPipeReadLoopDropWait(w, regs, i, result) ==
    IF i > Len(regs) THEN OkVec(w, result)
    ELSE LET r == ParseDr(TapsReadWriteDr(w, ReadPayload(BitAnd(regs[i], 3))))
         IN IF r.st = "err" /\ r.val = AckWait
            THEN MutPipeReadLoopDropWait(Ok(r, 0), regs, i + 1, result)
            ELSE Bind(r, LAMBDA r1 :
                     MutPipeReadLoopDropWait(r1, regs, i + 1, Append(result, r1.val)))

\* the loop of read_adi_pipelined over reg[1..]: regs[i] is requested while the
\* answer to the request before it is read
RECURSIVE PipeReadLoop(_, _, _, _)
PipeReadLoop(w, regs, i, result) ==
    IF i > Len(regs) THEN OkVec(w, result)
    ELSE IF regs[i] \div 4 # regs[1] \div 4 THEN Panic(w)
    ELSE Bind(ParseDr(TapsReadWriteDr(w, ReadPayload(BitAnd(regs[i], 3)))),
              LAMBDA r : PipeReadLoop(r, regs, i + 1, Append(result, r.val)))

ReadAdiPipelined(w, apsel, port, regs) ==
    IF regs = <<>> THEN Panic(w)
    ELSE Bind(BankSelect(w, apsel, regs[1] \div 4, 0),
         LAMBDA w1 :
         Bind(PipeReadLoop(TapsWriteDr(WriteIr(w1, <<port>>),
                                       ReadPayload(BitAnd(regs[1], 3))),
                           regs, 2, <<>>),
         LAMBDA w4 :
         Bind(ParseDr(TapsReadDr(w4)),
         LAMBDA r : OkVec(r, Append(w4.vec, r.val)))))

\* the loop of write_adi_pipelined reading the ACK of every write, as a
\* checked write does
RECURSIVE MutPipeWriteLoopChecked(_, _, _)
MutPipeWriteLoopChecked(w, regs, i) ==
    IF i > Len(regs) THEN Ok(w, 0)
    ELSE Bind(ParseDr(TapsReadDr(TapsWriteDr(w,
                  WritePayload(BitAnd(regs[i][1], 3), U64Bytes(regs[i][2]))))),
              LAMBDA w1 : MutPipeWriteLoopChecked(w1, regs, i + 1))

\* the loop of write_adi_pipelined: one write DR per (reg, val), no ACK read
RECURSIVE PipeWriteLoop(_, _, _)
PipeWriteLoop(w, regs, i) ==
    IF i > Len(regs) THEN Ok(w, 0)
    ELSE IF regs[i][1] \div 4 # regs[1][1] \div 4 THEN Panic(w)
    ELSE PipeWriteLoop(
             TapsWriteDr(w, WritePayload(BitAnd(regs[i][1], 3), U64Bytes(regs[i][2]))),
             regs, i + 1)

WriteAdiPipelined(w, apsel, port, regs) ==
    IF regs = <<>> THEN Panic(w)
    ELSE Bind(BankSelect(w, apsel, regs[1][1] \div 4, 0),
              LAMBDA w1 : PipeWriteLoop(WriteIr(w1, <<port>>), regs, 1))

\* ------------------------------------------------------------------------
\* MemAP: mem[m] is the MemAP object made for AP m (apsel = m)
\* ------------------------------------------------------------------------

\* csw & !(1 << 4) and csw | (1 << 4)
ClearInc(csw) == csw - BitAnd(csw, 16)
SetInc(csw) == BitOr(csw, 16)

\* MemAP::new
MemAPNew(w, m) ==
    Bind(Expect(ReadAdi(w, m, PortAP, RegCSW)),
    LAMBDA w1 :
    Bind(Expect(ReadAdi(w1, m, PortAP, RegTAR)),
    LAMBDA w2 :
    Ok([w2 EXCEPT !.mem[m] = [made |-> TRUE, csw |-> w1.val, tar |-> w2.val]], 0)))

\* write_csw without the update of the cached csw
MutWriteCswNoCache(w, m, csw) ==
    IF csw # w.mem[m].csw
    THEN Bind(WriteAdi(w, m, PortAP, RegCSW, csw), LAMBDA w1 : Ok(w1, 0))
    ELSE Ok(w, 0)

WriteCsw(w, m, csw) ==
    IF csw # w.mem[m].csw
    THEN Bind(WriteAdi(w, m, PortAP, RegCSW, csw),
              LAMBDA w1 : Ok([w1 EXCEPT !.mem[m].csw = csw], 0))
    ELSE Ok(w, 0)

\* the TAR write without the update of the cached tar
MutSetTarNoCache(w, m, addr, cache) ==
    IF w.mem[m].tar # addr
    THEN Bind(WriteAdi(w, m, PortAP, RegTAR, addr), LAMBDA w1 : Ok(w1, 0))
    ELSE Ok(w, 0)

\* if self.tar != addr { write_adi(TAR, addr)?; self.tar = cache }
SetTar(w, m, addr, cache) ==
    IF w.mem[m].tar # addr
    THEN Bind(WriteAdi(w, m, PortAP, RegTAR, addr),
              LAMBDA w1 : Ok([w1 EXCEPT !.mem[m].tar = cache], 0))
    ELSE Ok(w, 0)

\* the sticky test with mask 1 in place of 5
MutStickyCheckBit0(w, v) ==
    IF BitAnd(w.val, 1) # 0 THEN Err(w, ErrSticky) ELSE Ok(w, v)

\* if stat & 5 != 0 { return Err(5) }, else the call's value v
StickyCheck(w, v) ==
    IF BitAnd(w.val, 5) # 0 THEN Err(w, ErrSticky) ELSE Ok(w, v)

\* the CtrlStat probe that ends a composite operation
CheckStatus(w, m, v) ==
    Bind(ReadAdi(w, m, PortDP, DPCtrlStat), LAMBDA w1 : StickyCheck(w1, v))

\* MemAP::read
MemRead(w, m, addr) ==
    Bind(WriteCsw(w, m, ClearInc(w.mem[m].csw)),
    LAMBDA w1 :
    Bind(SetTar(w1, m, addr, addr),
    LAMBDA w2 :
    Bind(ReadAdi(w2, m, PortAP, RegDRW),
    LAMBDA w3 : CheckStatus(w3, m, w3.val))))

\* MemAP::write
MemWrite(w, m, addr, value) ==
    Bind(WriteCsw(w, m, ClearInc(w.mem[m].csw)),
    LAMBDA w1 :
    Bind(SetTar(w1, m, addr, addr),
    LAMBDA w2 :
    Bind(WriteAdi(w2, m, PortAP, RegDRW, value),
    LAMBDA w3 : CheckStatus(w3, m, 0))))

\* vec![DRW; len] and data.iter().map(|x| (DRW, *x))
DrwRegs(len) == [i \in 1..len |-> RegDRW]
DrwWrites(data) == [i \in 1..Len(data) |-> <<RegDRW, data[i]>>]

\* MemAP::read_block
ReadBlock(w, m, addr, len, check_status) ==
    Bind(WriteCsw(w, m, SetInc(w.mem[m].csw)),
    LAMBDA w1 :
    Bind(SetTar(w1, m, addr, addr + 4 * len),
    LAMBDA w2 :
    Bind(ReadAdiPipelined(w2, m, PortAP, DrwRegs(len)),
    LAMBDA w3 : IF check_status THEN CheckStatus(w3, m, 0) ELSE w3)))

\* MemAP::write_block
WriteBlock(w, m, addr, data, check_status) ==
    Bind(WriteCsw(w, m, SetInc(w.mem[m].csw)),
    LAMBDA w1 :
    Bind(SetTar(w1, m, addr, addr + 4 * Len(data)),
    LAMBDA w2 :
    Bind(WriteAdiPipelined(w2, m, PortAP, DrwWrites(data)),
    LAMBDA w3 : IF check_status THEN CheckStatus(w3, m, 0) ELSE w3)))

\* ------------------------------------------------------------------------
\* The state machine: one action per call of the library
\* ------------------------------------------------------------------------

\* the ACKs a target answers a call's transactions with: some OKs, some WAITs,
\* then possibly a FAULT or an ACK that is none of OK, WAIT, FAULT; OK once
\* the script is used up.  Rep(x, n) is x, n times
RECURSIVE Rep(_, _)
Rep(x, n) == IF n = 0 THEN <<>> ELSE <<x>> \o Rep(x, n - 1)

ScriptsOf(pre, wait) ==
    {Rep(AckOk, k) \o Rep(AckWait, n) \o t :
        k \in 0..pre, n \in 0..wait, t \in {<<>>, <<AckFault>>, <<5>>}}

\* for the MemAP's calls (up to MaxPre + 1 transactions are reached): some
\* OKs, then possibly one answer that is not OK
MemScripts == ScriptsOf(MaxPre, 0) \cup {Rep(AckOk, k) \o <<AckWait>> : k \in 0..MaxPre}

\* CtrlStat as the target has it during a call: bits 0 and 2 are the sticky
\* flags the library looks at
StatVals == {0, 1, 2, 4}

\* memory addresses and data words of the calls
Addrs == {0, 4, 1020}
Words == {7, 9}
\* where block transfers start
BlockAddrs == {0, 1020}

\* what the target's registers may hold when the host attaches
InitSels == {0, 16777216}
InitCsws == {<<2, 18>>}
InitTars == {<<0, 4>>}

\* what the target does during a call: its ACKs and its CtrlStat.  Every
\* script with CtrlStat clear, and the scripts without an error with every
\* CtrlStat
Envs(scripts) ==
    {[acks |-> s, stat |-> 0] : s \in scripts}
    \cup {[acks |-> s, stat |-> v] : s \in {<<>>, <<AckOk, AckWait>>}, v \in StatVals}

MemEnvs == Envs(MemScripts)

\* the answer no call reads: a call that reads an answer shifts a request first
NoResp == RespBytes(AckOk, 0)

\* the world a call starts in
StartWorld(e) ==
    [lastbank |-> adi.lastbank, lastir |-> adi.lastir, mem |-> memap,
     tap |-> [tap EXCEPT !.stat = e.stat], acks |-> e.acks, script |-> e.acks,
     trace |-> <<>>, tlog |-> <<>>,
     st |-> "ok", val |-> 0, vec |-> <<>>, dr |-> <<>>, qok |-> TRUE]

\* the state after a call that ended in world w
Commit(op, args, w) ==
    /\ phase' = IF w.st = "panic" THEN "panic" ELSE "done"
    /\ adi' = [lastbank |-> w.lastbank, lastir |-> w.lastir]
    /\ memap' = w.mem
    /\ tap' = [w.tap EXCEPT !.stat = 0, !.resp = NoResp]
    /\ call' = [op |-> op, args |-> args, st |-> w.st, val |-> w.val, vec |-> w.vec,
                acks |-> w.script, trace |-> w.trace, tlog |-> w.tlog,
                pre |-> [lastbank |-> adi.lastbank, lastir |-> adi.lastir,
                         mem |-> memap],
                prev |-> call.prev, prevargs |-> call.prevargs,
                clean |-> call.clean /\ w.st = "ok"]

NoMem == [m \in APs |-> [made |-> FALSE, csw |-> 0, tar |-> 0]]

\* no call in progress or observed; prev and prevargs are the operation
\* called before, clean is whether every call so far returned Ok
NoCall(prev, prevargs, clean) ==
    [op |-> "none", args |-> <<>>, st |-> "ok", val |-> 0, vec |-> <<>>,
     acks |-> <<>>, trace |-> <<>>, tlog |-> <<>>,
     pre |-> [lastbank |-> 0, lastir |-> <<>>, mem |-> NoMem],
     prev |-> prev, prevargs |-> prevargs, clean |-> clean]

Init ==
    /\ phase = "start"
    /\ adi = [lastbank |-> 0, lastir |-> <<>>]
    /\ memap = NoMem
    /\ \E sel \in InitSels, c \in InitCsws, t \in InitTars :
          tap = [ir |-> 0, rxq |-> <<>>, sel |-> sel,
                 csw |-> [m \in APs |-> c[m + 1]], tar |-> [m \in APs |-> t[m + 1]],
                 stat |-> 0, resp |-> NoResp]
    /\ call = NoCall("none", <<>>, TRUE)

\* the caller takes the result of the call that ended; Return forgets the
\* call, ReturnKeep remembers which operation it was (and the banks, when it
\* was bank_select; the apsel and the register's bank, when it was read_adi
\* or write_adi)
Return ==
    /\ phase = "done"
    /\ phase' = "idle"
    /\ call' = NoCall("none", <<>>, call.clean)
    /\ UNCHANGED <<adi, memap, tap>>

ReturnKeep ==
    /\ phase = "done"
    /\ phase' = "idle"
    /\ call' = NoCall(call.op,
                       IF call.op = "bank_select" THEN call.args
                       ELSE IF call.op \in {"read_adi", "write_adi"}
                            THEN <<call.args[1], call.args[3] \div 4>>
                            ELSE <<>>,
                       TRUE)
    /\ UNCHANGED <<adi, memap, tap>>

\* the target's TAR has not run away from the addresses of the calls: the
\* calls that may move it on go on while this holds
TarNear == \A x \in APs : tap.tar[x] \in Addrs \/ tap.tar[x] <= 4 * MaxDrift

\* ArmDebugInterface::new(taps)
New ==
    /\ phase = "start"
    /\ \E e \in MemEnvs : Commit("new", <<>>, AdiNew(StartWorld(e)))

\* MemAP::new(adi, m)
MemNew ==
    /\ phase = "idle"
    /\ \E m \in APs, e \in MemEnvs :
          /\ \A x \in APs : ~memap[x].made
          /\ Commit("memap_new", <<m>>, MemAPNew(StartWorld(e), m))

\* MemAP::read(addr)
Read ==
    /\ phase = "idle"
    /\ \E m \in APs, a \in Addrs, e \in MemEnvs :
          /\ memap[m].made
          /\ Commit("read", <<m, a>>, MemRead(StartWorld(e), m, a))

\* MemAP::write(addr, value)
Write ==
    /\ phase = "idle"
    /\ \E m \in APs, a \in Addrs, v \in Words, e \in MemEnvs :
          /\ memap[m].made
          /\ Commit("write", <<m, a, v>>, MemWrite(StartWorld(e), m, a, v))

NextSingle == New \/ MemNew \/ Read \/ Write \/ Return

SpecSingle == Init /\ [][NextSingle]_vars

\* the words write_block is given: len words, 21, 22, ...
BlockData(len) == [i \in 1..len |-> 20 + i]

\* MemAP::read_block(addr, len, check_status)
ReadBlockCall ==
    /\ phase = "idle"
    /\ \E m \in APs, a \in BlockAddrs, n \in 1..MaxLen, chk \in BOOLEAN,
          e \in MemEnvs :
          /\ memap[m].made
          /\ TarNear
          /\ Commit("read_block", <<m, a, n>>,
                    ReadBlock(StartWorld(e), m, a, n, chk))

\* MemAP::write_block(addr, data, check_status)
WriteBlockCall ==
    /\ phase = "idle"
    /\ \E m \in APs, a \in BlockAddrs, n \in 1..MaxLen, chk \in BOOLEAN,
          e \in MemEnvs :
          /\ memap[m].made
          /\ TarNear
          /\ Commit("write_block", <<m, a, n>>,
                    WriteBlock(StartWorld(e), m, a, BlockData(n), chk))

NextBlock == New \/ MemNew \/ Read \/ Write \/ ReadBlockCall \/ WriteBlockCall \/ Return

SpecBlock == Init /\ [][NextBlock]_vars

\* ------------------------------------------------------------------------
\* The engine called directly
\* ------------------------------------------------------------------------

\* registers, values and banks of the direct calls: register 1 and 3 of bank
\* 0, register 1 of bank 1
EngRegs == {1, 3, 5}
EngRegs2 == {1, 2}
EngVals == {8}
Banks == {0, 1}
Ports == {PortDP, PortAP}

\* scripts of the direct calls: up to MaxEngPre OKs, then possibly one answer
\* that is not OK; for write_adi_nobank up to MaxWait WAITs in a row
MaxEngPre == 1

EngEnvs ==
    {[acks |-> Rep(AckOk, k) \o t, stat |-> 0] :
        k \in 0..MaxEngPre, t \in {<<>>, <<AckWait>>, <<AckFault>>, <<5>>}}

WaitEnvs == {[acks |-> s, stat |-> 0] : s \in ScriptsOf(0, MaxWait)}

\* bank_select(apsel, apbank, dpbank)
EngBankSelect ==
    /\ phase = "idle"
    /\ \E ap \in APs, ab \in Banks, db \in Banks, e \in EngEnvs :
          Commit("bank_select", <<ap, ab, db>>, BankSelect(StartWorld(e), ap, ab, db))

\* read_adi(apsel, port, reg)
EngReadAdi ==
    /\ phase = "idle"
    /\ TarNear
    /\ \E ap \in APs, p \in Ports, r \in EngRegs, e \in EngEnvs :
          Commit("read_adi", <<ap, p, r>>, ReadAdi(StartWorld(e), ap, p, r))

\* write_adi(apsel, port, reg, val)
EngWriteAdi ==
    /\ phase = "idle"
    /\ TarNear
    /\ \E ap \in APs, p \in Ports, r \in EngRegs, v \in EngVals, e \in EngEnvs :
          Commit("write_adi", <<ap, p, r, v>>, WriteAdi(StartWorld(e), ap, p, r, v))

\* write_adi_nocheck(apsel, port, reg, val)
EngWriteAdiNocheck ==
    /\ phase = "idle"
    /\ TarNear
    /\ \E ap \in APs, p \in Ports, r \in EngRegs, v \in EngVals, e \in EngEnvs :
          Commit("write_adi_nocheck", <<ap, p, r, v>>,
                 WriteAdiNocheck(StartWorld(e), ap, p, r, v))

\* write_adi_nobank(port, reg, val, check); args holds check as 1 or 0
EngWriteAdiNobank ==
    /\ phase = "idle"
    /\ \E p \in Ports, r \in EngRegs2, v \in EngVals, chk \in BOOLEAN, e \in WaitEnvs :
          Commit("write_adi_nobank", <<p, r, v, IF chk THEN 1 ELSE 0>>,
                 WriteAdiNobank(StartWorld(e), p, r, v, chk))

\* read_adi_nobank(port, reg)
EngReadAdiNobank ==
    /\ phase = "idle"
    /\ \E p \in Ports, r \in EngRegs2, e \in EngEnvs :
          Commit("read_adi_nobank", <<p, r>>, ReadAdiNobank(StartWorld(e), p, r))

NextEngine ==
    \/ New
    \/ EngBankSelect
    \/ EngReadAdi
    \/ EngWriteAdi
    \/ EngWriteAdiNocheck
    \/ EngWriteAdiNobank
    \/ EngReadAdiNobank
    \/ ReturnKeep

SpecEngine == Init /\ [][NextEngine]_vars

\* ------------------------------------------------------------------------
\* Reading a call's record
\* ------------------------------------------------------------------------

IsIr(e) == e.k = "ir"
IsDr(e) == e.k # "ir"
IsWriteDr(e) == e.k = "wdr" /\ e.tx[1] % 2 = 0
IsSelectWrite(e) == IsWriteDr(e) /\ e.ir = PortDP /\ (e.tx[1] \div 2) % 4 = DPSelect

\* the register writes of a trace as <<port, register, value>>
WriteOf(e) == <<e.ir, (e.tx[1] \div 2) % 4, U32Of(DataOf(e.tx))>>
WritesOf(tr) == LET ws == SelectSeq(tr, IsWriteDr) IN [i \in 1..Len(ws) |-> WriteOf(ws[i])]

\* the target answered every transaction of the call with OK
AllOk == \A i \in 1..Len(call.tlog) : call.tlog[i].ack = AckOk

\* ------------------------------------------------------------------------
\* Claims
\* ------------------------------------------------------------------------

\* the DRW transfers the target made during the call
DrwAccesses ==
    {i \in 1..Len(call.tlog) :
        /\ call.tlog[i].port = PortAP
        /\ call.tlog[i].a = RegDRW
        /\ call.tlog[i].ack = AckOk}

\* C1: after MemAP::new and after any sequence of MemAP::read and
\* MemAP::write calls that all returned Ok, the MemAP's cached tar and csw
\* equal the TAR and CSW registers of its AP, and every DRW transfer of such
\* a read or write is made on its AP at the address the caller asked for.
C1_CachesMirrorTarget ==
    (phase = "done" /\ call.op \in {"memap_new", "read", "write"} /\ call.clean) =>
        LET m == call.args[1]
        IN /\ memap[m].tar = tap.tar[m]
           /\ memap[m].csw = tap.csw[m]
           /\ call.op \in {"read", "write"} =>
                 \A i \in DrwAccesses :
                     /\ ApSel(call.tlog[i].sel) = m
                     /\ call.tlog[i].addr = call.args[2]

\* C2: after every read_block(addr, count, _) or write_block(addr, data, _)
\* that returns Ok, the cached tar is addr + 4 * count.
C2_BlockTarFinal ==
    (phase = "done" /\ call.op \in {"read_block", "write_block"} /\ call.st = "ok") =>
        memap[call.args[1]].tar = call.args[2] + 4 * call.args[3]

\* C3: constructing the engine on a target that answers OK writes, in this
\* order and nothing else, DP.SELECT = 0, DP.Abort = 0 and DP.CtrlStat (the
\* power-up and sticky-clear bits, 0x50000022 in the claim's words and
\* 0x51000022 by the bits the constructor sets).
C3_InitWrites ==
    (phase = "done" /\ call.op = "new" /\ call.st = "ok" /\ AllOk) =>
        LET ws == WritesOf(call.trace)
        IN /\ Len(ws) = 3
           /\ ws[1] = <<PortDP, DPSelect, 0>>
           /\ ws[2] = <<PortDP, DPAbort, 0>>
           /\ ws[3][1] = PortDP /\ ws[3][2] = DPCtrlStat
           /\ ws[3][3] \in {1342177314, 1358954530}

\* the SELECT writes of the call
SelectWrites == SelectSeq(call.trace, IsSelectWrite)

\* C4: the first bank_select call after construction writes DP.SELECT
\* whatever its triple is, (0,0,0) included; a bank_select that repeats the
\* triple of the bank_select just before it writes nothing; one whose triple
\* differs from it writes SELECT again.
C4_SelectCache ==
    (phase = "done" /\ call.op = "bank_select") =>
        /\ call.prev = "new" => Len(SelectWrites) >= 1
        /\ (call.prev = "bank_select" /\ call.prevargs = call.args) =>
               Len(SelectWrites) = 0
        /\ (call.prev = "bank_select" /\ call.prevargs # call.args) =>
               Len(SelectWrites) >= 1


\* the operations that read the ACK of every transaction they make
CheckedOps ==
    {"bank_select", "read_adi", "write_adi", "read_adi_nobank"}

\* the transactions of the call that the target answered with FAULT
Faults == {i \in 1..Len(call.tlog) : call.tlog[i].ack = AckFault}

\* C7: when the target answers a transaction of bank_select, read_adi,
\* write_adi or read_adi_nobank with FAULT (4), the call returns the error
\* code 4 to its caller and makes no further transaction.
C7_FaultReturns ==
    (phase \in {"done", "panic"} /\ call.op \in CheckedOps /\ Faults # {}) =>
        /\ call.st = "err"
        /\ call.val = AckFault
        /\ Faults = {Len(call.tlog)}


\* the IR shifts of the call, and the payload most recently shifted before
\* the call's i-th scan (the engine's lastir when the call began, if the call
\* has shifted none yet)
IrShifts == SelectSeq(call.trace, IsIr)

IrShiftsBefore(i) == {j \in 1..(i - 1) : IsIr(call.trace[j])}

LastShifted(i) ==
    IF IrShiftsBefore(i) = {} THEN call.pre.lastir
    ELSE call.trace[CHOOSE j \in IrShiftsBefore(i) :
                        \A k \in IrShiftsBefore(i) : k <= j].tx

\* the calls that address one Port only, and that Port
OnePortOps == {"new", "bank_select", "write_adi_nobank", "read_adi_nobank"}

PortOfCall ==
    IF call.op \in {"new", "bank_select"} THEN PortDP ELSE call.args[1]

\* C5: across any sequence of engine operations the IR is shifted exactly
\* when the requested Port payload differs from the payload last shifted:
\* no shift repeats the payload shifted before it, every DR scan is made with
\* the payload last shifted in the IR, a call on one Port shifts the IR once
\* if that Port differs from lastir and not at all otherwise, every DR scan
\* of such a call (and the last scan of a successful read_adi or write_adi)
\* is made with the requested Port in the IR, and lastir is the payload most
\* recently shifted.
C5_IrCache ==
    (phase \in {"done", "panic"}) =>
        /\ adi.lastir = <<tap.ir>>
        /\ adi.lastir = LastShifted(Len(call.trace) + 1)
        /\ \A i \in 1..Len(call.trace) :
              /\ IsIr(call.trace[i]) => call.trace[i].tx # LastShifted(i)
              /\ IsDr(call.trace[i]) => <<call.trace[i].ir>> = LastShifted(i)
        /\ call.op \in OnePortOps =>
              /\ \A i \in 1..Len(call.trace) :
                    IsDr(call.trace[i]) => call.trace[i].ir = PortOfCall
              /\ Len(call.trace) > 0 =>
                    Len(IrShifts) = IF <<PortOfCall>> # call.pre.lastir THEN 1 ELSE 0
        /\ (call.op \in {"read_adi", "write_adi", "write_adi_nocheck"} /\ call.st = "ok") =>
              call.trace[Len(call.trace)].ir = call.args[2]

\* C5's case: a write_adi to an AP register begins on the DP, which the IR
\* already holds (the SELECT write shifts no IR), and then changes to the AP
\* (one IR shift).
C5_Witness ==
    /\ phase = "done"
    /\ call.op = "write_adi" /\ call.st = "ok" /\ call.args[2] = PortAP
    /\ call.pre.lastir = <<PortDP>>
    /\ Len(SelectWrites) = 1
    /\ Len(IrShifts) = 1
    /\ IsWriteDr(call.trace[1])

\* the DR scans of the call
DrScans == SelectSeq(call.trace, IsDr)

\* C6: a checked write_adi_nobank whose ACKs are WAIT n times and then OK
\* returns Ok after exactly n + 1 write-DR shifts of the same 35-bit payload
\* (val << 3) | (reg << 1), each followed by one scan that reads the ACK.
C6_WaitRetry ==
    (/\ phase \in {"done", "panic"}
     /\ call.op = "write_adi_nobank" /\ call.args[4] = 1
     /\ call.acks = Rep(AckWait, Len(call.acks))) =>
        /\ call.st = "ok"
        /\ Len(DrScans) = 2 * (Len(call.acks) + 1)
        /\ \A i \in 1..Len(DrScans) :
              IF i % 2 = 1
              THEN /\ DrScans[i].k = "wdr"
                   /\ DrScans[i].tx = WritePayload(call.args[2], U64Bytes(call.args[3]))
              ELSE /\ DrScans[i].k = "rdr"
                   /\ AckOf(DrScans[i].rx) = (IF i = Len(DrScans) THEN AckOk ELSE AckWait)

\* C6's case: WAIT twice, then OK: three write-DR shifts and Ok.
C6_Witness ==
    /\ phase = "done"
    /\ call.op = "write_adi_nobank" /\ call.args[4] = 1
    /\ call.acks = <<AckWait, AckWait>>
    /\ call.st = "ok"
    /\ Len(SelectSeq(call.trace, IsWriteDr)) = 3


\* the last transaction of the call
LastTxn == call.tlog[Len(call.tlog)]

\* C8: when all ACKs of a MemAP::read or MemAP::write are OK, the call ends
\* with a read of DP.CtrlStat and returns Err(5) if and only if the value
\* read has bit 0 or bit 2 set; otherwise read returns the value of its DRW
\* read and write returns Ok. In the error case the DRW value is not
\* returned.
C8_StickyStatus ==
    (phase = "done" /\ call.op \in {"read", "write"} /\ AllOk) =>
        /\ Len(call.tlog) >= 2
        /\ LastTxn.port = PortDP /\ LastTxn.a = DPCtrlStat /\ LastTxn.rnw = 1
        /\ call.tlog[Len(call.tlog) - 1].port = PortAP
        /\ call.tlog[Len(call.tlog) - 1].a = RegDRW
        /\ IF BitAnd(LastTxn.data, 5) # 0
           THEN call.st = "err" /\ call.val = ErrSticky
           ELSE /\ call.st = "ok"
                /\ call.op = "read" =>
                      /\ call.tlog[Len(call.tlog) - 1].rnw = 1
                      /\ call.val = call.tlog[Len(call.tlog) - 1].data

\* C8's case: a read whose ACKs are all OK and whose CtrlStat has only bit 2
\* set returns Err(5), not the word DRW gave.
C8_Witness ==
    /\ phase = "done"
    /\ call.op = "read" /\ AllOk
    /\ LastTxn.a = DPCtrlStat /\ LastTxn.data = 4
    /\ call.st = "err" /\ call.val = ErrSticky
    /\ call.tlog[Len(call.tlog) - 1].data # ErrSticky

\* the call ended in an error on a write to AP register a that the target
\* answered with neither OK nor WAIT
FailedApWrite(a) ==
    /\ phase = "done"
    /\ call.op \in {"read", "write"}
    /\ call.st = "err"
    /\ Len(call.tlog) > 0
    /\ LastTxn.port = PortAP /\ LastTxn.rnw = 0 /\ LastTxn.a = a
    /\ LastTxn.ack \notin {AckOk, AckWait}

\* C9: if a write to CSW or TAR made by MemAP::read or MemAP::write fails
\* with an ACK other than OK or WAIT, the cached csw or tar is invalidated
\* when the call returns: it no longer holds the value cached before the
\* call, so the next operation writes the register again even for that value.
C9_CacheInvalidated ==
    /\ FailedApWrite(RegCSW) =>
          memap[call.args[1]].csw # call.pre.mem[call.args[1]].csw
    /\ FailedApWrite(RegTAR) =>
          memap[call.args[1]].tar # call.pre.mem[call.args[1]].tar


\* ------------------------------------------------------------------------
\* The wire format on its own: the payload write_adi_nobank builds and the
\* decoding parse_ack does, applied to chosen registers, values and scans
\* ------------------------------------------------------------------------

\* the bytes a value or a scan is made of, and the fifth byte of a scan
ByteVals == {0, 37, 224, 255}
HighVals == {0, 5, 255}
WireRegs == 0..3

WireCall(reg, val, dr, ack, data) ==
    [op |-> "wire", reg |-> reg, val |-> val, dr |-> dr, ack |-> ack, data |-> data]

InitWire ==
    /\ phase = "wire"
    /\ adi = [lastbank |-> 0, lastir |-> <<>>]
    /\ memap = NoMem
    /\ tap = [ir |-> 0, rxq |-> <<>>, sel |-> 0,
              csw |-> [m \in APs |-> 0], tar |-> [m \in APs |-> 0],
              stat |-> 0, resp |-> NoResp]
    /\ \E reg \in WireRegs, val \in [1..4 -> ByteVals] :
          call = WireCall(reg, val, <<>>, 0, <<>>)

\* the payload of a write of val (its 4 bytes, as u64) to reg
WireEncode ==
    /\ phase = "wire"
    /\ phase' = "encoded"
    /\ call' = [call EXCEPT !.dr = WritePayload(call.reg, call.val \o <<0, 0, 0, 0>>)]
    /\ UNCHANGED <<adi, memap, tap>>

\* the payload read back as a scan
WireDecode ==
    /\ phase = "encoded"
    /\ phase' = "decoded"
    /\ call' = [call EXCEPT !.ack = AckOf(call.dr), !.data = DataOf(call.dr)]
    /\ UNCHANGED <<adi, memap, tap>>

\* a scan of 5 arbitrary bytes (the bits above 34 included) decoded
WireScan ==
    /\ phase = "wire"
    /\ phase' = "scanned"
    /\ \E hi \in HighVals :
          LET dr == call.val \o <<hi>>
          IN call' = [call EXCEPT !.dr = dr, !.ack = AckOf(dr), !.data = DataOf(dr)]
    /\ UNCHANGED <<adi, memap, tap>>

NextWire == WireEncode \/ WireDecode \/ WireScan

SpecWire == InitWire /\ [][NextWire]_vars

\* bit k of a little-endian byte sequence
Bit(bytes, k) == (bytes[(k \div 8) + 1] \div Pow2(k % 8)) % 2

\* C10: for every reg in 0..3 and every 32-bit val, the payload of a write
\* is 5 bytes whose bit 0 is 0 (a write), bits [2:1] are reg, bits [34:3] are
\* val and bits above 34 are 0; decoding a 35-bit scan gives ACK = bits [2:0]
\* and data = bits [34:3]; decoding the payload gives val back and reg << 1
\* in the low three bits.
C10_WireFormat ==
    /\ phase \in {"encoded", "decoded"} =>
          /\ Len(call.dr) = 5
          /\ \A k \in 0..39 :
                Bit(call.dr, k) =
                    IF k = 0 THEN 0
                    ELSE IF k <= 2 THEN (call.reg \div Pow2(k - 1)) % 2
                    ELSE IF k <= 34 THEN Bit(call.val, k - 3)
                    ELSE 0
    /\ phase = "decoded" =>
          /\ call.data = call.val
          /\ call.ack = 2 * call.reg
    /\ phase = "scanned" =>
          /\ call.ack = Bit(call.dr, 0) + 2 * Bit(call.dr, 1) + 4 * Bit(call.dr, 2)
          /\ Len(call.data) = 4
          /\ \A k \in 0..31 : Bit(call.data, k) = Bit(call.dr, k + 3)

\* C10's case: the value with all 32 bits set, written to register 3, has
\* been encoded and decoded.
C10_Witness ==
    /\ phase = "decoded"
    /\ call.reg = 3
    /\ call.val = <<255, 255, 255, 255>>
    /\ call.dr = <<254, 255, 255, 255, 7>>


\* ------------------------------------------------------------------------
\* Sequences of MemAP calls: the caller remembers the calls made before
\* ------------------------------------------------------------------------

\* the writes to AP register a that the target accepted during the call
ApWrites(a) ==
    {i \in 1..Len(call.tlog) :
        /\ call.tlog[i].port = PortAP
        /\ call.tlog[i].rnw = 0
        /\ call.tlog[i].a = a
        /\ call.tlog[i].ack = AckOk}

\* what is remembered of a call: the operation, its arguments, whether it
\* returned Ok, the TAR and CSW writes the target accepted, and the caches
\* of its MemAP before and after it
Summary ==
    LET m == IF call.op = "new" THEN 0 ELSE call.args[1]
    IN [op |-> call.op, args |-> call.args, ok |-> call.st = "ok",
        tw |-> Cardinality(ApWrites(RegTAR)), cw |-> Cardinality(ApWrites(RegCSW)),
        tar0 |-> call.pre.mem[m].tar, csw0 |-> call.pre.mem[m].csw,
        tar |-> memap[m].tar, csw |-> memap[m].csw]

\* the calls remembered, oldest first
Hist == IF call.prev = "none" THEN <<>> ELSE call.prev

\* the last two of the calls s
LastTwoOf(s) == IF Len(s) > 2 THEN Tail(s) ELSE s

\* the call returns; the caller remembers it and the call before it
ReturnLastTwo ==
    /\ phase = "done"
    /\ phase' = "idle"
    /\ call' = NoCall(LastTwoOf(Append(Hist, Summary)), <<>>, TRUE)
    /\ UNCHANGED <<adi, memap, tap>>

\* the auto-increment mode a MemAP operation asks for
ModeOf(op) ==
    IF op \in {"read", "write"} THEN "single"
    ELSE IF op \in {"read_block", "write_block"} THEN "block"
    ELSE "none"

\* the call returns; the caller remembers its mode and whether it returned Ok
ReturnMode ==
    /\ phase = "done"
    /\ phase' = "idle"
    /\ call' = NoCall(<<[mode |-> ModeOf(call.op), ok |-> call.st = "ok"]>>, <<>>, TRUE)
    /\ UNCHANGED <<adi, memap, tap>>

NextReads == New \/ MemNew \/ Read \/ ReturnLastTwo

SpecReads == Init /\ [][NextReads]_vars

\* the call is a successful read that follows, on the same MemAP, the
\* successful call(s) remembered
ReadAfter(ops) ==
    /\ phase = "done"
    /\ call.op = "read" /\ call.st = "ok"
    /\ Len(Hist) = 2
    /\ Len(ops) = 1 => Hist[2].op = ops[1]
    /\ Len(ops) = 2 => Hist[1].op = ops[1] /\ Hist[2].op = ops[2]
    /\ \A i \in (3 - Len(ops))..2 : Hist[i].ok /\ Hist[i].args[1] = call.args[1]

\* C11 as stated: for a MemAP just constructed and any address A, two
\* consecutive successful read(A) calls have exactly one TAR write accepted
\* in total, also when A is the TAR value read at construction; a following
\* successful read(B), B # A, has one more.
C11_OneTarWriteAlways ==
    /\ (ReadAfter(<<"memap_new", "read">>) /\ Hist[2].args[2] = call.args[2]) =>
          Hist[2].tw + Cardinality(ApWrites(RegTAR)) = 1
    /\ (ReadAfter(<<"read">>) /\ Hist[2].args[2] # call.args[2]) =>
          Cardinality(ApWrites(RegTAR)) = 1

\* C11 amended: for a MemAP just constructed and any address A, two
\* consecutive successful read(A) calls have exactly one TAR write accepted
\* in total when A differs from the TAR value read at construction, and
\* none when A equals it; the second read never writes TAR; a following
\* successful read(B), B # A, has one more.
C11_OneTarWrite ==
    /\ (ReadAfter(<<"memap_new", "read">>) /\ Hist[2].args[2] = call.args[2]) =>
          /\ Hist[2].tw + Cardinality(ApWrites(RegTAR)) =
                IF call.args[2] = Hist[1].tar THEN 0 ELSE 1
          /\ ApWrites(RegTAR) = {}
    /\ (ReadAfter(<<"read">>) /\ Hist[2].args[2] # call.args[2]) =>
          Cardinality(ApWrites(RegTAR)) = 1

\* C11's case: the second of two successful reads of an address that is not
\* the TAR read at construction: the first wrote TAR, the second did not.
C11_Witness ==
    /\ ReadAfter(<<"memap_new", "read">>)
    /\ Hist[2].args[2] = call.args[2]
    /\ call.args[2] # Hist[1].tar
    /\ Hist[2].tw = 1
    /\ ApWrites(RegTAR) = {}


\* what the target does during a call of a sequence of mixed modes: the CSW
\* write is the first or second transaction of a call, so the scripts have a
\* WAIT, a FAULT or an unknown ACK in the first three answers, or none
ModeEnvs ==
    {[acks |-> s, stat |-> 0] :
        s \in ScriptsOf(2, 0) \cup {Rep(AckOk, k) \o <<AckWait>> : k \in 0..2}}

\* MemAP::read(addr) and MemAP::write(addr, value)
ModeRead ==
    /\ phase = "idle"
    /\ \E m \in APs, a \in BlockAddrs, e \in ModeEnvs :
          /\ memap[m].made
          /\ Commit("read", <<m, a>>, MemRead(StartWorld(e), m, a))

ModeWrite ==
    /\ phase = "idle"
    /\ \E m \in APs, a \in BlockAddrs, v \in Words, e \in ModeEnvs :
          /\ memap[m].made
          /\ Commit("write", <<m, a, v>>, MemWrite(StartWorld(e), m, a, v))

\* MemAP::read_block(addr, len, false) and MemAP::write_block(addr, data, false)
ModeReadBlock ==
    /\ phase = "idle"
    /\ \E m \in APs, a \in BlockAddrs, n \in 1..MaxLen, e \in ModeEnvs :
          /\ memap[m].made
          /\ TarNear
          /\ Commit("read_block", <<m, a, n>>,
                    ReadBlock(StartWorld(e), m, a, n, FALSE))

ModeWriteBlock ==
    /\ phase = "idle"
    /\ \E m \in APs, a \in BlockAddrs, n \in 1..MaxLen, e \in ModeEnvs :
          /\ memap[m].made
          /\ TarNear
          /\ Commit("write_block", <<m, a, n>>,
                    WriteBlock(StartWorld(e), m, a, BlockData(n), FALSE))

NextModes ==
    \/ New
    \/ MemNew
    \/ ModeRead
    \/ ModeWrite
    \/ ModeReadBlock
    \/ ModeWriteBlock
    \/ ReturnMode

SpecModes == Init /\ [][NextModes]_vars

\* the call is a MemAP operation with a mode; NeededCsw is the CSW value it
\* asks for: the cached csw with bit 4 cleared (single) or set (block)
IsModeCall == phase = "done" /\ ModeOf(call.op) # "none"

CswBefore == call.pre.mem[call.args[1]].csw

NeededCsw ==
    IF ModeOf(call.op) = "single"
    THEN CswBefore - ((CswBefore \div 16) % 2) * 16
    ELSE CswBefore + (1 - ((CswBefore \div 16) % 2)) * 16

\* C12: a MemAP operation that returns Ok has a CSW write accepted exactly
\* when the CSW value it needs differs from the cached csw, and then one
\* only, which is the needed value and is cached; so an operation after a
\* successful one of the same mode (single read/write, or block) writes no
\* CSW, and one after a successful operation of the other mode writes CSW
\* exactly once.
C12_CswCache ==
    IsModeCall =>
        /\ call.st = "ok" =>
              /\ Cardinality(ApWrites(RegCSW)) = IF NeededCsw # CswBefore THEN 1 ELSE 0
              /\ \A i \in ApWrites(RegCSW) : call.tlog[i].data = NeededCsw
              /\ memap[call.args[1]].csw = NeededCsw
        /\ (Hist[1].ok /\ Hist[1].mode = ModeOf(call.op)) =>
              /\ ApWrites(RegCSW) = {}
              /\ \A i \in 1..Len(call.tlog) :
                    ~(call.tlog[i].port = PortAP /\ call.tlog[i].rnw = 0
                      /\ call.tlog[i].a = RegCSW)
        /\ (Hist[1].ok /\ Hist[1].mode \notin {"none", ModeOf(call.op)} /\ call.st = "ok") =>
              Cardinality(ApWrites(RegCSW)) = 1

\* C12's case: a successful single read after a successful block transfer
\* wrote CSW once.
C12_Witness ==
    /\ IsModeCall
    /\ call.op = "read" /\ call.st = "ok"
    /\ Hist[1].ok /\ Hist[1].mode = "block"
    /\ Cardinality(ApWrites(RegCSW)) = 1


\* ------------------------------------------------------------------------
\* Bank selection of the read and write paths
\* ------------------------------------------------------------------------

\* the bank of the register the call accesses
BankOfCall == call.args[3] \div 4

\* the call is op, made right after a prev call on the same apsel and the
\* same register bank
SameBankAfter(prev, op) ==
    /\ phase \in {"done", "panic"}
    /\ call.op = op
    /\ call.prev = prev
    /\ call.prevargs = <<call.args[1], BankOfCall>>

\* C13 as stated: for every register bank, a write_adi right after a
\* read_adi of the same bank and apsel emits a DP.SELECT write, and so does
\* a read_adi right after a write_adi of the same bank and apsel.
C13_BankAsymmetryAll ==
    /\ SameBankAfter("read_adi", "write_adi") => Len(SelectWrites) >= 1
    /\ SameBankAfter("write_adi", "read_adi") => Len(SelectWrites) >= 1

\* C13 amended: for every register bank other than 0, a write_adi right
\* after a read_adi of the same bank and apsel makes a DP.SELECT write its first
\* DR scan, which sets DPBANKSEL to the bank, and a read_adi right after a write_adi
\* of the same bank and apsel begins likewise, setting it to 0; for bank 0
\* neither emits a SELECT write.
C13_BankAsymmetry ==
    /\ SameBankAfter("read_adi", "write_adi") =>
          IF BankOfCall = 0 THEN Len(SelectWrites) = 0
          ELSE /\ IsSelectWrite(DrScans[1])
               /\ \A i \in 1..Len(SelectWrites) :
                     WriteOf(SelectWrites[i])[3] =
                         BankVal(call.args[1], BankOfCall, BankOfCall)
    /\ SameBankAfter("write_adi", "read_adi") =>
          IF BankOfCall = 0 THEN Len(SelectWrites) = 0
          ELSE /\ IsSelectWrite(DrScans[1])
               /\ \A i \in 1..Len(SelectWrites) :
                     WriteOf(SelectWrites[i])[3] = BankVal(call.args[1], BankOfCall, 0)

\* C13's case: a write_adi to a register of bank 1 right after a read_adi of
\* bank 1 on the same apsel has written SELECT once, with DPBANKSEL = 1.
C13_Witness ==
    /\ SameBankAfter("read_adi", "write_adi")
    /\ phase = "done" /\ call.st = "ok"
    /\ BankOfCall = 1
    /\ Len(SelectWrites) = 1
    /\ DpBank(WriteOf(SelectWrites[1])[3]) = 1
    /\ DpBank(call.pre.lastbank) = 0


\* ------------------------------------------------------------------------
\* The queued and the pipelined paths
\* ------------------------------------------------------------------------

\* Ok(val) of a bool: 1 for true, 0 for false
\* queue_read_adi's answer taken as true whatever the transport said
MutOkBoolTrue(w) == IF w.st = "ok" THEN Ok(w, 1) ELSE w

OkBool(w) == IF w.st = "ok" THEN Ok(w, IF w.qok THEN 1 ELSE 0) ELSE w

\* queue_read's TAR write: write_adi_nocheck(TAR, addr)?; self.tar = addr
SetTarNocheck(w, m, addr) ==
    IF w.mem[m].tar # addr
    THEN Bind(WriteAdiNocheck(w, m, PortAP, RegTAR, addr),
              LAMBDA w1 : Ok([w1 EXCEPT !.mem[m].tar = addr], 0))
    ELSE Ok(w, 0)

\* MemAP::queue_read
MemQueueRead(w, m, addr) ==
    Bind(WriteCsw(w, m, ClearInc(w.mem[m].csw)),
    LAMBDA w1 :
    Bind(SetTarNocheck(w1, m, addr),
    LAMBDA w2 : OkBool(QueueReadAdi(w2, m, PortAP, RegDRW))))

\* MemAP::finish_read
MemFinishRead(w) == FinishRead(w)

\* the register lists of the pipelined calls: up to MaxLen registers, of one
\* bank or not
RegLists == UNION {[1..n -> EngRegs] : n \in 1..MaxLen}
RegValLists == {[i \in 1..Len(rs) |-> <<rs[i], 4 * i>>] : rs \in RegLists}

\* the target's answers to a pipelined call: OK, or one WAIT or FAULT among
\* the first MaxLen + 1 answers
PipeEnvs ==
    {[acks |-> Rep(AckOk, k) \o t, stat |-> 0] :
        k \in 0..MaxLen, t \in {<<>>, <<AckWait>>, <<AckFault>>}}

\* read_adi_pipelined(apsel, port, reg)
EngReadAdiPipelined ==
    /\ phase = "idle"
    /\ TarNear
    /\ \E ap \in APs, p \in Ports, rs \in RegLists, e \in PipeEnvs :
          Commit("read_adi_pipelined", <<ap, p, rs>>,
                 ReadAdiPipelined(StartWorld(e), ap, p, rs))

\* write_adi_pipelined(apsel, port, reg)
EngWriteAdiPipelined ==
    /\ phase = "idle"
    /\ TarNear
    /\ \E ap \in APs, p \in Ports, rs \in RegValLists, e \in PipeEnvs :
          Commit("write_adi_pipelined", <<ap, p, rs>>,
                 WriteAdiPipelined(StartWorld(e), ap, p, rs))

\* queue_read_adi(apsel, port, reg)
EngQueueReadAdi ==
    /\ phase = "idle"
    /\ TarNear
    /\ \E ap \in APs, p \in Ports, r \in EngRegs, e \in EngEnvs :
          Commit("queue_read_adi", <<ap, p, r>>,
                 OkBool(QueueReadAdi(StartWorld(e), ap, p, r)))

\* finish_read(), called when a queued read is pending
EngFinishRead ==
    /\ phase = "idle"
    /\ tap.rxq # <<>>
    /\ Commit("finish_read", <<>>, FinishRead(StartWorld([acks |-> <<>>, stat |-> 0])))

\* the call returns and nothing of it is remembered
Forget ==
    /\ phase = "done"
    /\ phase' = "idle"
    /\ call' = NoCall("none", <<>>, TRUE)
    /\ UNCHANGED <<adi, memap, tap>>

NextPipe == New \/ EngReadAdiPipelined \/ EngWriteAdiPipelined \/ Forget

SpecPipe == Init /\ [][NextPipe]_vars


\* the read paths and the write paths of the engine
ReadPaths == {"read_adi", "queue_read_adi", "read_adi_pipelined"}
WritePaths == {"write_adi", "write_adi_nocheck", "write_adi_pipelined"}

\* the (first) register the call accesses, and its bank
FirstReg ==
    IF call.op = "read_adi_pipelined" THEN call.args[3][1]
    ELSE IF call.op = "write_adi_pipelined" THEN call.args[3][1][1]
    ELSE call.args[3]

FirstBank == FirstReg \div 4

\* the call has selected the banks val: lastbank is val, and SELECT was
\* written, with val, if and only if lastbank was not val before
HasSelected(val) ==
    /\ adi.lastbank = val
    /\ (Len(SelectWrites) > 0) = (call.pre.lastbank # val)
    /\ \A i \in 1..Len(SelectWrites) : WriteOf(SelectWrites[i])[3] = val

\* C14: every read path of the engine (read_adi, queue_read_adi,
\* read_adi_pipelined) selects (apsel, bank, 0) and every write path
\* (write_adi, write_adi_nocheck, write_adi_pipelined) selects
\* (apsel, bank, bank), bank being reg >> 2 of the first register accessed.
C14_BankSelectPaths ==
    /\ (phase = "done" /\ call.op \in ReadPaths) =>
          HasSelected(BankVal(call.args[1], FirstBank, 0))
    /\ (phase = "done" /\ call.op \in WritePaths) =>
          HasSelected(BankVal(call.args[1], FirstBank, FirstBank))


\* the read requests of the call that the target answered OK, in order
ReadTxns ==
    SelectSeq(call.tlog, LAMBDA t : t.rnw = 1 /\ t.ack = AckOk)

\* the DR scans of the call after its bank selection
AccessScans ==
    SubSeq(DrScans, 2 * Len(SelectWrites) + 1, Len(DrScans))

\* C16: for a non-empty register list of one bank and a target that answers
\* every transaction OK, read_adi_pipelined makes, after its bank selection,
\* exactly len + 1 DR scans (one request, len - 1 scans that read and
\* request, one read) and returns a vector of len elements whose i-th is
\* the data the target produced for the request of regs[i]: the answer to
\* the request of scan N is what scan N + 1 shifts out.
C16_PipelinedRead ==
    (phase = "done" /\ call.op = "read_adi_pipelined" /\ AllOk) =>
        LET regs == call.args[3]
            n == Len(regs)
        IN /\ call.st = "ok"
           /\ Len(AccessScans) = n + 1
           /\ AccessScans[1].k = "wdr"
           /\ AccessScans[n + 1].k = "rdr"
           /\ \A i \in 1..n :
                 /\ AccessScans[i].tx = ReadPayload(regs[i] % 4)
                 /\ AccessScans[i].ir = call.args[2]
                 /\ i > 1 => AccessScans[i].k = "rwdr"
           /\ Len(call.vec) = n
           /\ Len(ReadTxns) = n
           /\ \A i \in 1..n :
                 /\ call.vec[i] = ReadTxns[i].data
                 /\ ReadTxns[i].a = regs[i] % 4
                 /\ AckOf(AccessScans[i + 1].rx) = AckOk
                 /\ U32Of(DataOf(AccessScans[i + 1].rx)) = call.vec[i]

\* C16's case: TAR and DRW of an AP read in one pipelined call: two
\* different words, in the order of the requests, in three DR scans.
C16_Witness ==
    /\ phase = "done" /\ call.op = "read_adi_pipelined" /\ AllOk
    /\ call.args[2] = PortAP /\ call.args[3] = <<RegTAR, RegDRW>>
    /\ call.st = "ok"
    /\ Len(call.vec) = 2
    /\ call.vec[1] # call.vec[2]
    /\ call.vec[2] = MemAt(call.vec[1])
    /\ Len(AccessScans) = 3

\* C17: write_adi_pipelined on a non-empty list of one bank makes, after
\* its bank selection and the IR shift, exactly one write-DR scan per
\* (reg, val) pair, in list order, and no scan that reads an ACK, and
\* returns Ok whatever the target answers to those writes.
C17_PipelinedWrite ==
    (phase = "done" /\ call.op = "write_adi_pipelined") =>
        LET regs == call.args[3]
            n == Len(regs)
        IN /\ call.st = "ok"
           /\ Len(AccessScans) = n
           /\ \A i \in 1..n :
                 /\ AccessScans[i].k = "wdr"
                 /\ AccessScans[i].ir = call.args[2]
                 /\ AccessScans[i].tx =
                       WritePayload(regs[i][1] % 4, U64Bytes(regs[i][2]))
           /\ Len(call.tlog) = n + Len(SelectWrites)

\* C17's case: two writes, the first answered FAULT by the target, and the
\* call returned Ok after both write-DR scans.
C17_Witness ==
    /\ phase = "done" /\ call.op = "write_adi_pipelined"
    /\ SelectWrites = <<>>
    /\ Len(call.args[3]) = 2
    /\ call.tlog[1].ack = AckFault
    /\ call.st = "ok"
    /\ Len(DrScans) = 2


\* the DRW read requests of the call that the target did not answer OK
FailedDrwReads ==
    {i \in 1..Len(call.tlog) :
        /\ call.tlog[i].port = PortAP
        /\ call.tlog[i].rnw = 1
        /\ call.tlog[i].a = RegDRW
        /\ call.tlog[i].ack # AckOk}

\* the call is a read_block one of whose DRW reads the target answered ack
BlockReadAnswered(ack) ==
    /\ phase = "done"
    /\ call.op = "read_block"
    /\ \E i \in FailedDrwReads : call.tlog[i].ack = ack

MaxRounds == 3

\* what the target may answer to a write
Answers == {AckOk, AckWait, AckFault, 5}

\* `continue`: the loop goes round again
Again(w) == [w EXCEPT !.st = "again"]

\* the ACK match with WAIT returned as an error: the retry given up
MutLoopMatchGiveUp(w3) ==
    IF AckOf(w3.dr) = 2 THEN Ok(w3, 0) ELSE Err(w3, AckOf(w3.dr))

\* the match on the ACK read: Ok(()), continue, or Err(ack)
LoopMatch(w3) ==
    IF AckOf(w3.dr) = 2 THEN Ok(w3, 0)
    ELSE IF AckOf(w3.dr) = 1 THEN Again(w3)
    ELSE Err(w3, AckOf(w3.dr))

\* write_ir(&ir); taps.write_dr(&bytes[0..5], 3)
LoopSend(w, port, reg, val) ==
    TapsWriteDr(WriteIr(w, <<port>>), WritePayload(reg, U64Bytes(val)))

\* taps.read_dr(35) and the match
LoopRead(w) == LoopMatch(TapsReadDr(w))

\* the call in progress: waits is the WAITs it has been answered (the first
\* MaxRounds of them)
LoopCallRec(args, st, val, waits) ==
    [NoCall("none", <<>>, TRUE) EXCEPT
        !.op = "write_adi_nobank", !.args = args, !.st = st, !.val = val,
        !.acks = waits]

InitLoop ==
    /\ phase = "idle"
    /\ memap = NoMem
    /\ call = NoCall("none", <<>>, TRUE)
    /\ \E ir \in {<<>>, <<PortDP>>, <<PortAP>>} :
          /\ adi = [lastbank |-> 0, lastir |-> ir]
          /\ tap = [ir |-> IF ir = <<>> THEN 0 ELSE ir[1], rxq |-> <<>>, sel |-> 0,
                    csw |-> [m \in APs |-> 2], tar |-> [m \in APs |-> 0],
                    stat |-> 0, resp |-> NoResp]

\* write_adi_nobank(port, reg, val, true) is called
LoopCall ==
    /\ phase = "idle"
    /\ phase' = "send"
    /\ \E p \in Ports, r \in EngRegs2, v \in EngVals :
          call' = LoopCallRec(<<p, r, v, 1>>, "again", 0, <<>>)
    /\ UNCHANGED <<adi, memap, tap>>

\* one round's IR and write-DR scans; the target answers as it chooses
LoopShift ==
    /\ phase = "send"
    /\ phase' = "ack"
    /\ \E a \in Answers :
          LET w == LoopSend(StartWorld([acks |-> <<a>>, stat |-> 0]),
                            call.args[1], call.args[2], call.args[3])
          IN /\ adi' = [lastbank |-> w.lastbank, lastir |-> w.lastir]
             /\ tap' = w.tap
    /\ UNCHANGED <<memap, call>>

\* the round's ACK-reading scan and what the loop does with the ACK
LoopAck ==
    /\ phase = "ack"
    /\ LET r == LoopRead(StartWorld([acks |-> <<>>, stat |-> 0]))
       IN /\ phase' = IF r.st = "again" THEN "send" ELSE "done"
          /\ call' = LoopCallRec(call.args, r.st, r.val,
                                 IF r.st = "again" /\ Len(call.acks) < MaxRounds
                                 THEN Append(call.acks, AckWait) ELSE call.acks)
    /\ UNCHANGED <<adi, memap, tap>>

NextLoop == LoopCall \/ LoopShift \/ LoopAck \/ Forget

\* the thread that runs the loop keeps running
SpecLoop ==
    /\ InitLoop
    /\ [][NextLoop]_vars
    /\ WF_vars(LoopShift)
    /\ WF_vars(LoopAck)

\* C18: a checked write returns whenever the target answers one of its ACK
\* scans with something other than WAIT (Ok for OK, Err(ack) otherwise),
\* and it does not return on WAIT: whatever the number of WAITs before, a
\* WAIT makes the loop send the write again.
C18_WaitLoop ==
    /\ (phase = "ack" /\ AckOf(tap.resp) # AckWait) ~> (phase = "done")
    /\ (phase = "send") ~> (phase = "ack")
    /\ [][(phase = "ack" /\ AckOf(tap.resp) = AckWait)
            => (phase' = "send" /\ call'.st = "again")]_vars
    /\ [][(phase = "ack" /\ phase' = "done") =>
            /\ AckOf(tap.resp) # AckWait
            /\ call'.st = (IF AckOf(tap.resp) = AckOk THEN "ok" ELSE "err")
            /\ call'.st = "err" => call'.val = AckOf(tap.resp)]_vars

\* C18's case: after MaxRounds WAITs the write is being sent again.
C18_Witness ==
    /\ phase = "send"
    /\ call.op = "write_adi_nobank"
    /\ call.acks = Rep(AckWait, MaxRounds)
    /\ AckOf(tap.resp) = AckWait


\* the read requests the call shifted in, and the scans that gave it a result
ReadRequests ==
    SelectSeq(call.trace, LAMBDA e : e.k \in {"wdr", "rwdr"} /\ e.tx[1] % 2 = 1)

ResultScans == SelectSeq(call.trace, LAMBDA e : e.k = "fin")

\* the call is a scalar read whose read request the target answered ack
ScalarReadAnswered(ack) ==
    /\ phase = "done"
    /\ call.op \in {"read_adi", "read_adi_nobank"}
    /\ \E i \in 1..Len(call.tlog) : call.tlog[i].rnw = 1 /\ call.tlog[i].ack = ack

\* C19: on the scalar read paths (read_adi_nobank, read_adi, with the
\* finish_read they end in) an ACK of WAIT is not retried: the call has
\* shifted one read request and taken one result, whose ACK is WAIT, and
\* returns Err(1).
C19_ReadWaitNotRetried ==
    ScalarReadAnswered(AckWait) =>
        /\ call.st = "err" /\ call.val = AckWait
        /\ LastTxn.rnw = 1 /\ LastTxn.ack = AckWait
        /\ Len(ReadRequests) = 1
        /\ Len(ResultScans) = 1
        /\ AckOf(ResultScans[1].rx) = AckWait
        /\ call.trace[Len(call.trace)] = ResultScans[1]
        /\ Cardinality({i \in 1..Len(call.tlog) : call.tlog[i].rnw = 1}) = 1

\* C19's case: a read_adi that wrote SELECT first and whose read request
\* was then answered WAIT.
C19_Witness ==
    /\ ScalarReadAnswered(AckWait)
    /\ call.op = "read_adi"
    /\ Len(SelectWrites) = 1
    /\ call.st = "err" /\ call.val = AckWait
    /\ Len(ReadRequests) = 1

\* ------------------------------------------------------------------------
\* Queued reads of a MemAP
\* ------------------------------------------------------------------------

\* queue_read(addr) on a constructed MemAP
MemQueueReadCall ==
    /\ phase = "idle"
    /\ \E m \in APs, a \in BlockAddrs, e \in ModeEnvs :
          /\ memap[m].made
          /\ Commit("queue_read", <<m, a>>, MemQueueRead(StartWorld(e), m, a))

\* MemAP::finish_read(), called when a queued read is pending
MemFinishReadCall ==
    /\ phase = "idle"
    /\ tap.rxq # <<>>
    /\ \E m \in APs :
          /\ memap[m].made
          /\ Commit("mem_finish_read", <<m>>,
                    MemFinishRead(StartWorld([acks |-> <<>>, stat |-> 0])))

NextQueue == New \/ MemNew \/ MemQueueReadCall \/ MemFinishReadCall \/ Forget

SpecQueue == Init /\ [][NextQueue]_vars

\* the deferred reads the transport accepted during the call
QueuedReads == SelectSeq(call.trace, LAMBDA e : e.k = "qrd")

\* the call asked the transport to queue a DR read and the transport refused:
\* the read request was shifted and no deferred read was accepted
QueueRefused == ReadRequests # <<>> /\ QueuedReads = <<>>

\* C20: MemAP::queue_read(addr) returns Ok(false) exactly when the transport
\* refuses to queue another DR read, and Ok(true) when the transport accepts
\* it; when it returns Ok(false) no result is pending for that call (the
\* transport's queue is full and the call added nothing to it), and the
\* cached tar equals addr: the TAR cache update is not reverted.
C20_QueueRead ==
    (phase = "done" /\ call.op = "queue_read") =>
        /\ (call.st = "ok" /\ call.val = 0) <=> QueueRefused
        /\ (call.st = "ok" /\ call.val = 1) <=> (QueuedReads # <<>>)
        /\ call.st = "ok" => call.val \in {0, 1} /\ Len(ReadRequests) = 1
        /\ Len(QueuedReads) <= 1
        /\ (call.st = "ok" /\ call.val = 0) =>
              /\ Len(tap.rxq) = QueueCap
              /\ ResultScans = <<>>
              /\ memap[call.args[1]].tar = call.args[2]

\* C20's case: queue_read returned Ok(false) on a full queue after it had
\* written a new address to TAR, which the cache keeps.
C20_Witness ==
    /\ phase = "done" /\ call.op = "queue_read"
    /\ call.st = "ok" /\ call.val = 0
    /\ call.pre.mem[call.args[1]].tar # call.args[2]
    /\ \E i \in 1..Len(call.tlog) :
          /\ call.tlog[i].port = PortAP /\ call.tlog[i].a = RegTAR
          /\ call.tlog[i].rnw = 0 /\ call.tlog[i].ack = AckOk
    /\ memap[call.args[1]].tar = call.args[2]

\* ------------------------------------------------------------------------
\* Decoding of arbitrary scans
\* ------------------------------------------------------------------------

\* the scans a target can shift out: every value of the low byte's ACK bits
\* and lowest data bit, data bytes of all zeros or all ones, and a highest
\* byte with bits above 34 set or not
Scans ==
    {<<b1, b2, b3, b4, b5>> :
        b1 \in 0..15, b2 \in {0, 255}, b3 \in {0, 255},
        b4 \in {0, 255}, b5 \in {0, 3, 251}}

\* an engine whose transport holds one deferred answer, the scan dr, which
\* is also what the next read_dr shifts out
InitDecode ==
    /\ phase = "idle"
    /\ adi = [lastbank |-> 0, lastir |-> <<>>]
    /\ memap = NoMem
    /\ \E dr \in Scans :
          tap = [ir |-> 0, rxq |-> <<dr>>, sel |-> 0,
                 csw |-> [m \in APs |-> 0], tar |-> [m \in APs |-> 0],
                 stat |-> 0, resp |-> dr]
    /\ call = NoCall("none", <<>>, TRUE)

\* finish_read() of the deferred answer
DecodeFinishRead ==
    /\ phase = "idle"
    /\ tap.rxq # <<>>
    /\ Commit("finish_read", <<>>, FinishRead(StartWorld([acks |-> <<>>, stat |-> 0])))

\* parse_ack of the scan a read_dr shifts out
DecodeParseAck ==
    /\ phase = "idle"
    /\ tap.rxq # <<>>
    /\ Commit("parse_ack", <<>>, ParseDr(TapsReadDr(StartWorld([acks |-> <<>>, stat |-> 0]))))

NextDecode == DecodeFinishRead \/ DecodeParseAck \/ Forget

SpecDecode == InitDecode /\ [][NextDecode]_vars

\* C21: every ACK error code the engine returns to a caller is a nonzero,
\* non-OK 3-bit value: whatever 35-bit scan the target returns, a failing
\* decode yields a code in {1,3,4,5,6,7}, never 0 and never 2.
C21_ErrCodes ==
    (phase = "done" /\ call.op \in {"finish_read", "parse_ack"} /\ call.st = "err") =>
        call.val \in {1, 3, 4, 5, 6, 7}

\* ------------------------------------------------------------------------
\* read_dcc, and several MemAPs on one engine
\* ------------------------------------------------------------------------

\* the hard-wired AP of read_dcc's bank_select, and the offset of DSCR
DccApSel == 1
DccOffset == 136
\* bit 29 of DSCR: the DTR holds data
DccFull(dscr) == (dscr \div 536870912) % 2 = 1

\* the end of read_dcc: read_dr and parse_ack; Some(v) is the vector <<v>>
DccFinish(w) ==
    Bind(ParseDr(TapsReadDr(w)), LAMBDA w1 : OkVec(w1, <<w1.val>>))

\* MemAP::read_dcc(debug_base, check_fifo); None is the empty vector
MemReadDcc(w, m, base, check_fifo) ==
    Bind(WriteCsw(w, m, SetInc(w.mem[m].csw)),
    LAMBDA w1 :
    Bind(Expect(WriteAdiNocheck(w1, m, PortAP, RegTAR, base + DccOffset)),
    LAMBDA w2 :
    Bind(BankSelect([w2 EXCEPT !.mem[m].tar = base + DccOffset],
                    DccApSel, RegDRW \div 4, 0),
    LAMBDA w3 :
        LET buf == ReadPayload(BitAnd(RegDRW, 3))
            w4 == TapsWriteDr(WriteIr(w3, <<PortAP>>), buf)
        IN IF check_fifo
           THEN Bind(ParseDr(TapsReadWriteDr(w4, buf)),
                     LAMBDA w5 : IF ~DccFull(w5.val) THEN OkVec(w5, <<>>)
                                 ELSE DccFinish(w5))
           ELSE DccFinish(TapsWriteDr(w4, buf)))))

\* where the debug registers of a core are
DccBases == {536870912}

\* TAR of every AP is an address of the calls, near one, or near a DSCR
DccNear ==
    \A x \in APs :
        \/ tap.tar[x] \in Addrs
        \/ tap.tar[x] <= 4 * MaxDrift
        \/ \E b \in DccBases : tap.tar[x] \in (b + DccOffset)..(b + DccOffset + 4 * MaxDrift)

\* the ACKs of a call on the shared engine
ShareEnvs ==
    {[acks |-> s, stat |-> 0] : s \in {<<>>, <<AckWait>>}}

\* the address of the calls on the shared engine
ShareAddrs == {0}

\* MemAP::new(adi, m) when the engine has MemAPs already
ShareMemNew ==
    /\ phase = "idle"
    /\ \E m \in APs :
          /\ ~memap[m].made
          /\ Commit("memap_new", <<m>>, MemAPNew(StartWorld([acks |-> <<>>, stat |-> 0]), m))

ShareRead ==
    /\ phase = "idle"
    /\ DccNear
    /\ \E m \in APs, a \in ShareAddrs, e \in ShareEnvs :
          /\ memap[m].made
          /\ Commit("read", <<m, a>>, MemRead(StartWorld(e), m, a))

ShareWrite ==
    /\ phase = "idle"
    /\ DccNear
    /\ \E m \in APs, a \in ShareAddrs, e \in ShareEnvs :
          /\ memap[m].made
          /\ Commit("write", <<m, a, 7>>, MemWrite(StartWorld(e), m, a, 7))

\* queue_read(addr), one deferred read at a time
ShareQueueRead ==
    /\ phase = "idle"
    /\ DccNear
    /\ tap.rxq = <<>>
    /\ \E m \in APs, a \in ShareAddrs, e \in ShareEnvs :
          /\ memap[m].made
          /\ Commit("queue_read", <<m, a>>, MemQueueRead(StartWorld(e), m, a))

ShareReadBlock ==
    /\ phase = "idle"
    /\ DccNear
    /\ \E m \in APs, a \in ShareAddrs, e \in ShareEnvs :
          /\ memap[m].made
          /\ Commit("read_block", <<m, a, 1>>, ReadBlock(StartWorld(e), m, a, 1, TRUE))

ShareWriteBlock ==
    /\ phase = "idle"
    /\ DccNear
    /\ \E m \in APs, a \in ShareAddrs, e \in ShareEnvs :
          /\ memap[m].made
          /\ Commit("write_block", <<m, a, 1>>,
                    WriteBlock(StartWorld(e), m, a, BlockData(1), TRUE))

ShareReadDcc ==
    /\ phase = "idle"
    /\ DccNear
    /\ \E m \in APs, b \in DccBases, f \in BOOLEAN, e \in ShareEnvs :
          /\ memap[m].made
          /\ Commit("read_dcc", <<m, b, f>>, MemReadDcc(StartWorld(e), m, b, f))

NextShare ==
    \/ New \/ ShareMemNew \/ ShareRead \/ ShareWrite \/ ShareQueueRead
    \/ MemFinishReadCall \/ ShareReadBlock \/ ShareWriteBlock \/ ShareReadDcc
    \/ Forget

SpecShare == Init /\ [][NextShare]_vars

MemApOps == {"read", "write", "queue_read", "read_block", "write_block", "read_dcc"}

\* the AP-register scans of the call
ApTxns == SelectSeq(call.tlog, LAMBDA t : t.port = PortAP)

\* C22: with several MemAPs on distinct apsel values sharing one engine,
\* under any interleaving of their operations (read, write, queue_read,
\* read_block, write_block, read_dcc), every AP-register scan of an
\* operation of a MemAP happens while the APSEL field of the target's SELECT
\* equals that MemAP's apsel, and so does the APSEL field of lastbank.
C22_OwnApSel ==
    (phase = "done" /\ call.op \in MemApOps /\ \A x \in APs : memap[x].made) =>
        /\ \A i \in 1..Len(ApTxns) : ApSel(ApTxns[i].sel) = call.args[1]
        /\ ApTxns # <<>> => ApSel(adi.lastbank) = call.args[1]

\* ------------------------------------------------------------------------
\* Queued reads interleaved with scalar reads
\* ------------------------------------------------------------------------

PairAddrs == {0, 4}

\* the target answers every transaction OK, or the first one WAIT
PairEnvs == {[acks |-> s, stat |-> 0] : s \in {<<>>, <<AckWait>>}}

\* the answers of the target to the read requests of the call, as scans
ReadAnswers ==
    LET t == SelectSeq(call.tlog, LAMBDA x : x.rnw = 1)
    IN [i \in 1..Len(t) |-> RespBytes(t[i].ack, t[i].data)]

\* the answers to the queued reads the caller has not finished, oldest first
Pending == call.prevargs

PairQueueRead ==
    /\ phase = "idle"
    /\ \E m \in APs, a \in PairAddrs, e \in PairEnvs :
          /\ memap[m].made
          /\ Commit("queue_read", <<m, a>>, MemQueueRead(StartWorld(e), m, a))

PairRead ==
    /\ phase = "idle"
    /\ \E m \in APs, a \in PairAddrs, e \in PairEnvs :
          /\ memap[m].made
          /\ Commit("read", <<m, a>>, MemRead(StartWorld(e), m, a))

\* read_adi(m, Port::AP, DRW)
PairReadAdi ==
    /\ phase = "idle"
    /\ \E m \in APs, e \in PairEnvs :
          /\ memap[m].made
          /\ Commit("read_adi", <<m, PortAP, RegDRW>>,
                    ReadAdi(StartWorld(e), m, PortAP, RegDRW))

\* the call returns; the caller keeps count of the queued reads it has to
\* finish: one more after a queue_read that returned true, one fewer after a
\* finish_read
ReturnPending ==
    /\ phase = "done"
    /\ phase' = "idle"
    /\ call' = NoCall("none",
                      IF call.op = "queue_read" /\ call.st = "ok" /\ call.val = 1
                      THEN Append(Pending, ReadAnswers[Len(ReadAnswers)])
                      ELSE IF call.op = "mem_finish_read" /\ Pending # <<>>
                      THEN Tail(Pending)
                      ELSE Pending,
                      TRUE)
    /\ UNCHANGED <<adi, memap, tap>>

NextPair ==
    \/ New \/ MemNew \/ PairQueueRead \/ MemFinishReadCall \/ PairRead
    \/ PairReadAdi \/ ReturnPending

SpecPair == Init /\ [][NextPair]_vars

\* C23: queued and scalar reads keep request/response pairing under any
\* interleaving: the k-th finish_read takes the answer to the k-th queue_read
\* that returned true and returns its data, and a scalar MemAP::read or
\* read_adi called while queued reads are outstanding neither aborts on a
\* full transport queue nor takes the answer to an earlier queued request
\* in place of its own.
C23_Pairing ==
    /\ (phase = "done" /\ call.op = "mem_finish_read" /\ Pending # <<>>) =>
          /\ ResultScans[1].rx = Head(Pending)
          /\ call.st = "ok" => call.val = U32Of(DataOf(Head(Pending)))
    /\ (phase \in {"done", "panic"} /\ call.op \in {"read", "read_adi"}
            /\ Pending # <<>>) =>
          /\ phase # "panic"
          /\ ResultScans # <<>> => ResultScans[1].rx = ReadAnswers[1]

\* ------------------------------------------------------------------------
\* write_block with the status check
\* ------------------------------------------------------------------------

\* the DRW writes of the call, and its TAR writes, as the target saw them
DrwWriteTxns ==
    SelectSeq(call.tlog, LAMBDA t : t.port = PortAP /\ t.a = RegDRW /\ t.rnw = 0)

TarWriteTxns ==
    SelectSeq(call.tlog, LAMBDA t : t.port = PortAP /\ t.a = RegTAR /\ t.rnw = 0)

\* the call read DP.CtrlStat: it is a block call made with check_status
StatusRead ==
    \E i \in 1..Len(call.tlog) :
        /\ call.tlog[i].port = PortDP /\ call.tlog[i].a = DPCtrlStat
        /\ call.tlog[i].rnw = 1

\* C24: if write_block(addr, data, true) returns Ok, then every word of data
\* was accepted by the target (each DRW write, and the TAR write, got ACK
\* OK) and the words landed at addr, addr + 4, ...: a WAIT or FAULT answer
\* to one of the unchecked DRW writes makes the call return an error.
C24_CheckedWriteBlock ==
    (phase = "done" /\ call.op = "write_block" /\ StatusRead /\ call.st = "ok") =>
        LET m == call.args[1]
            addr == call.args[2]
            n == call.args[3]
        IN /\ Len(DrwWriteTxns) = n
           /\ \A i \in 1..Len(DrwWriteTxns) :
                 /\ DrwWriteTxns[i].ack = AckOk
                 /\ DrwWriteTxns[i].data = BlockData(n)[i]
                 /\ ApSel(DrwWriteTxns[i].sel) = m
                 /\ DrwWriteTxns[i].addr = addr + 4 * (i - 1)
           /\ TarWriteTxns # <<>> => TarWriteTxns[Len(TarWriteTxns)].ack = AckOk

\* ------------------------------------------------------------------------
\* The error code 5
\* ------------------------------------------------------------------------

\* the call's last transaction is a read of DP.CtrlStat, answered OK, whose
\* value has a bit of mask 5 set
StickySeen ==
    /\ Len(call.tlog) > 0
    /\ LastTxn.port = PortDP /\ LastTxn.a = DPCtrlStat /\ LastTxn.rnw = 1
    /\ LastTxn.ack = AckOk
    /\ BitAnd(LastTxn.data, 5) # 0

\* C25: the error code 5 identifies a sticky-status failure unambiguously:
\* MemAP::read, MemAP::write, read_block and write_block return Err(5) only
\* when the CtrlStat value read at the end of the operation has a bit of
\* mask 5 set, never because a scan was answered with the unrecognized ACK 5.
C25_StickyCodeOnly ==
    (phase = "done" /\ call.op \in {"read", "write", "read_block", "write_block"}
        /\ call.st = "err" /\ call.val = ErrSticky) =>
        StickySeen

====
